---- MODULE Spec2Model ----
(***************************************************************************)
(* Scenario-driven device simulation harness of AutoGLM-GUI:               *)
(* tests/integration/device_agent/mock_agent_server.py (the command        *)
(* recorder and the HTTP facade) on top of the scenario state machine      *)
(* (tests/integration/state_machine, modelled from the specification:      *)
(* ScenarioLoader, StateGraph, SimulationEngine).                          *)
(***************************************************************************)
EXTENDS Integers, Sequences, FiniteSets, TLC

\* Python's None. It differs from every text, the text "None" included: an
\* optional text (scenario_path, the current_state of get_state) is either
\* None or Some(text); an optional number (delay, duration_ms) is either None
\* or the number.
None == << >>

\* An optional text `str | None` that is a text.
Some(text) == << text >>

\* `state.state_machine = None`: no engine is active.
NoStateMachine == [none |-> TRUE]

\* An empty `params` dict.
EmptyParams == <<>>

(***************************************************************************)
(* Bounds of the model.                                                    *)
(***************************************************************************)
\* Longest command log explored where every verb is called.
MaxLog == 2
\* Longest command log explored where motion events range over the whole grid.
MaxMotionLog == 1
\* Longest engine history the model explores.
MaxHistory == 3
\* Longest list of expected actions handed to expect.
MaxExpect == 2
\* Largest coordinate of a motion event.
MaxCoord == 2
\* Latest reading of the wall clock.
MaxClock == 2

(***************************************************************************)
(* Scenario sources (the logical schema of section 6 of the specification) *)
(***************************************************************************)
Rect(x1, y1, x2, y2) == <<x1, y1, x2, y2>>

Transition(kind, region, target) ==
    [kind |-> kind, region |-> region, target |-> target]

Screenshot(data, width, height) ==
    [base64 |-> data, width |-> width, height |-> height]

StateDecl(shot, app, transitions) ==
    [screenshot |-> shot, currentApp |-> app, transitions |-> transitions]

\* Three screens. On s0 a swipe region is declared before two tap regions that
\* overlap at (1, 1) and (1, 2), and a second swipe region declared last overlaps
\* the first at the same points; s1 has a self-loop and a way back; s2 has no
\* transition.
OverlapScenario ==
    [initialStateId |-> "s0",
     stateIds |-> <<"s0", "s1", "s2">>,
     states |->
        [s0 |-> StateDecl(Screenshot("png_s0", 1080, 2400), "com.app.a",
                  << Transition("swipe", Rect(0, 1, 1, 2), "s2"),
                     Transition("tap", Rect(0, 1, 1, 2), "s1"),
                     Transition("tap", Rect(1, 1, 2, 2), "s2"),
                     Transition("swipe", Rect(1, 0, 2, 2), "s1") >>),
         s1 |-> StateDecl(Screenshot("png_s1", 1080, 2400), "com.app.b",
                  << Transition("tap", Rect(0, 0, 0, 0), "s1"),
                     Transition("tap", Rect(1, 1, 1, 1), "s0"),
                     Transition("swipe", Rect(0, 2, 2, 2), "s0") >>),
         s2 |-> StateDecl(Screenshot("png_s2", 720, 1280), "com.app.a", << >>)]]

\* The scenario of the tests, scaled down: home --tap--> message.
MessageScenario ==
    [initialStateId |-> "home",
     stateIds |-> <<"home", "message">>,
     states |->
        [home |-> StateDecl(Screenshot("png_home", 1080, 2400),
                    "com.sankuai.meituan",
                    << Transition("tap", Rect(0, 1, 2, 2), "message") >>),
         message |-> StateDecl(Screenshot("png_message", 1080, 2400),
                    "com.sankuai.meituan", << >>)]]

\* A transition whose target names no declared state.
DanglingScenario ==
    [initialStateId |-> "home",
     stateIds |-> <<"home">>,
     states |->
        [home |-> StateDecl(Screenshot("png_home", 1080, 2400), "com.app.a",
                    << Transition("tap", Rect(0, 0, 1, 1), "nowhere") >>)]]

\* A region with x1 > x2.
InvertedScenario ==
    [initialStateId |-> "home",
     stateIds |-> <<"home">>,
     states |->
        [home |-> StateDecl(Screenshot("png_home", 1080, 2400), "com.app.a",
                    << Transition("tap", Rect(2, 0, 1, 1), "home") >>)]]

\* A required field is missing: no initialStateId.
NoInitialScenario ==
    [stateIds |-> <<"home">>,
     states |->
        [home |-> StateDecl(Screenshot("png_home", 1080, 2400), "com.app.a",
                    << Transition("tap", Rect(0, 0, 1, 1), "home") >>)]]

\* The scenario files on disk; any other path cannot be read.
ScenarioFiles ==
    [p \in {"overlap.yaml", "message.yaml", "dangling.yaml", "inverted.yaml",
            "noinitial.yaml"} |->
        CASE p = "overlap.yaml" -> OverlapScenario
          [] p = "message.yaml" -> MessageScenario
          [] p = "dangling.yaml" -> DanglingScenario
          [] p = "inverted.yaml" -> InvertedScenario
          [] p = "noinitial.yaml" -> NoInitialScenario]

\* Paths handed to load_scenario where the engine is moved over the whole grid.
Paths ==
    {"overlap.yaml", "message.yaml", "dangling.yaml", "inverted.yaml",
     "missing.yaml"}

\* Every path handed to load_scenario: the files and one that cannot be read.
AllPaths == DOMAIN ScenarioFiles \cup {"missing.yaml"}

\* The paths whose source the loader must reject.
RejectedPaths == AllPaths \ {"overlap.yaml", "message.yaml"}

(***************************************************************************)
(* ScenarioLoader and StateGraph                                           *)
(***************************************************************************)
Range(s) == { s[i] : i \in DOMAIN s }

RegionOk(r) == r[1] <= r[3] /\ r[2] <= r[4]

\* load(source) fails with ScenarioError unless this holds.
ScenarioValid(path) ==
    /\ path \in DOMAIN ScenarioFiles
    /\ LET src == ScenarioFiles[path]
           ids == Range(src.stateIds)
       IN /\ "initialStateId" \in DOMAIN src
          /\ src.initialStateId \in ids
          /\ \A id \in ids :
                /\ src.states[id].screenshot.width > 0
                /\ src.states[id].screenshot.height > 0
                /\ \A i \in DOMAIN src.states[id].transitions :
                      LET t == src.states[id].transitions[i]
                      IN /\ t.kind \in {"tap", "swipe"}
                         /\ t.target \in ids
                         /\ RegionOk(t.region)

\* load_test_case(path): the engine created on a successful scenario load.
load_test_case(path) ==
    LET src == ScenarioFiles[path]
    IN [states |-> [id \in Range(src.stateIds) |->
                       [screenshot |-> src.states[id].screenshot,
                        current_app |-> src.states[id].currentApp,
                        transitions |-> src.states[id].transitions]],
        state_ids |-> src.stateIds,
        initial_state_id |-> src.initialStateId,
        current_state_id |-> src.initialStateId,
        state_history |-> << src.initialStateId >>]

(***************************************************************************)
(* SimulationEngine                                                        *)
(***************************************************************************)
\* matchRegion contains (x, y), bounds inclusive.
Contains(region, x, y) ==
    /\ region[1] <= x /\ x <= region[3]
    /\ region[2] <= y /\ y <= region[4]

\* Scan the transitions from position i on, in declaration order: the index of
\* the first transition of the kind whose region contains the point, 0 if none.
RECURSIVE FindTransition(_, _, _, _, _)
FindTransition(transitions, kind, x, y, i) ==
    IF i > Len(transitions) THEN 0
    ELSE IF transitions[i].kind = kind /\ Contains(transitions[i].region, x, y)
         THEN i
         ELSE FindTransition(transitions, kind, x, y, i + 1)

\* Apply a transition to target: set the current state, append to the history.
ApplyTransition(sm, target) ==
    [sm EXCEPT !.current_state_id = target,
               !.state_history = Append(@, target)]

HandleEvent(sm, kind, x, y) ==
    LET transitions == sm.states[sm.current_state_id].transitions
        i == FindTransition(transitions, kind, x, y, 1)
    IN IF i = 0 THEN sm ELSE ApplyTransition(sm, transitions[i].target)

handle_tap(sm, x, y) == HandleEvent(sm, "tap", x, y)

\* The end point is not matched against any region.
handle_swipe(sm, start_x, start_y, end_x, end_y) ==
    HandleEvent(sm, "swipe", start_x, start_y)

\* Mutant of engine_reset: the current state is restored, the history is kept.
engine_reset_keeps_history(sm) ==
    [sm EXCEPT !.current_state_id = sm.initial_state_id]

\* reset() of the engine: back to the initial state with the history
\* [initialStateId]; the graph is not reloaded.
engine_reset(sm) ==
    [sm EXCEPT !.current_state_id = sm.initial_state_id,
               !.state_history = << sm.initial_state_id >>]

get_current_screenshot(sm) ==
    LET shot == sm.states[sm.current_state_id].screenshot
    IN [base64_data |-> shot.base64, width |-> shot.width, height |-> shot.height]

current_state(sm) == sm.states[sm.current_state_id]

(***************************************************************************)
(* Harness state: MockAgentState, the clock and the response in flight.    *)
(***************************************************************************)
\* The device ids of the driving agents.
Devices == {"device_1", "device_2"}

\* The clients of the server: a driving agent per device and the supervising
\* test client. Each holds one connection and waits for its answer.
Callers == Devices \cup {"supervisor"}

\* A caller with no request in flight.
Idle == [route |-> "idle"]

VARIABLES
    commands,       \* MockAgentState.commands: the command log
    state_machine,  \* MockAgentState.state_machine: the engine or NoStateMachine
    scenario_path,  \* MockAgentState.scenario_path
    clock,          \* what datetime.now() returns
    resp,           \* the answer to the latest request
    inflight,       \* per caller, the request received and not yet handled
    completed       \* the verb requests handled since the last handled reset

vars == <<commands, state_machine, scenario_path, clock, resp, inflight,
          completed>>

\* MockAgentState.__init__, and the app created without a scenario.
Init ==
    /\ commands = << >>
    /\ state_machine = NoStateMachine
    /\ scenario_path = None
    /\ clock = 0
    /\ resp = [route |-> "", code |-> 0, body |-> EmptyParams]
    /\ inflight = [c \in Callers |-> Idle]
    /\ completed = << >>

\* A request sent and handled in one step of the model: a sequential caller.
Direct(call) == call /\ UNCHANGED <<inflight, completed>>


loaded == state_machine # NoStateMachine

\* An answer of the server: the route answered, the status code and the body.
Response(route, code, body) == [route |-> route, code |-> code, body |-> body]

OkBody == [status |-> "ok"]

(***************************************************************************)
(* CommandRecorder: MockAgentState.record / reset, CommandRecord           *)
(***************************************************************************)
CommandRecord(action, device_id, params) ==
    [action |-> action, device_id |-> device_id, params |-> params,
     timestamp |-> clock]

\* Mutant of record: the new record is put in front of the log.
record_in_front(action, device_id, params) ==
    << CommandRecord(action, device_id, params) >> \o commands

\* MockAgentState.record: the log after the call.
record(action, device_id, params) ==
    Append(commands, CommandRecord(action, device_id, params))

\* CommandRecord.to_dict
to_dict(cmd) ==
    [action |-> cmd.action, device_id |-> cmd.device_id, params |-> cmd.params,
     timestamp |-> cmd.timestamp]

\* Mutant of get_screenshot_data: the screenshot of the initial state is
\* returned, wherever the engine is.
get_screenshot_data_of_initial ==
    IF loaded
    THEN LET shot == state_machine.states[state_machine.initial_state_id].screenshot
         IN [base64_data |-> shot.base64, width |-> shot.width,
             height |-> shot.height, is_sensitive |-> FALSE]
    ELSE [base64_data |-> "", width |-> 1080, height |-> 2400,
          is_sensitive |-> FALSE]

\* MockAgentState.get_screenshot_data
get_screenshot_data ==
    IF loaded
    THEN LET result == get_current_screenshot(state_machine)
         IN [base64_data |-> result.base64_data, width |-> result.width,
             height |-> result.height, is_sensitive |-> FALSE]
    ELSE [base64_data |-> "", width |-> 1080, height |-> 2400,
          is_sensitive |-> FALSE]

\* MockAgentState.get_current_app
get_current_app ==
    IF loaded THEN current_state(state_machine).current_app ELSE "com.mock.app"

(***************************************************************************)
(* Device-control verbs                                                    *)
(***************************************************************************)
screenshot(device_id, timeout) ==
    /\ commands' = record("screenshot", device_id, [timeout |-> timeout])
    /\ resp' = Response("screenshot", 200, get_screenshot_data)
    /\ UNCHANGED <<state_machine, scenario_path, clock>>

\* Mutant of tap: the coordinates reach the engine swapped.
tap_swapped(device_id, x, y, delay) ==
    /\ commands' = record("tap", device_id, [x |-> x, y |-> y, delay |-> delay])
    /\ state_machine' = IF loaded THEN handle_tap(state_machine, y, x)
                                  ELSE state_machine
    /\ resp' = Response("tap", 200, OkBody)
    /\ UNCHANGED <<scenario_path, clock>>

\* Mutant of tap: a tap that fires no transition is answered but not recorded.
tap_unrecorded_miss(device_id, x, y, delay) ==
    LET after == IF loaded THEN handle_tap(state_machine, x, y) ELSE state_machine
    IN /\ commands' = IF after = state_machine THEN commands
                      ELSE record("tap", device_id,
                                  [x |-> x, y |-> y, delay |-> delay])
       /\ state_machine' = after
       /\ resp' = Response("tap", 200, OkBody)
       /\ UNCHANGED <<scenario_path, clock>>

\* Mutant of tap: only the taps of device_1 reach the engine, as if every other
\* device had an engine of its own.
tap_own_engine(device_id, x, y, delay) ==
    /\ commands' = record("tap", device_id, [x |-> x, y |-> y, delay |-> delay])
    /\ state_machine' = IF loaded /\ device_id = "device_1"
                        THEN handle_tap(state_machine, x, y)
                        ELSE state_machine
    /\ resp' = Response("tap", 200, OkBody)
    /\ UNCHANGED <<scenario_path, clock>>

\* Mutant of tap: the call is recorded and answered, its transition is left
\* for later.
tap_transition_deferred(device_id, x, y, delay) ==
    /\ commands' = record("tap", device_id, [x |-> x, y |-> y, delay |-> delay])
    /\ state_machine' = state_machine
    /\ resp' = Response("tap", 200, OkBody)
    /\ UNCHANGED <<scenario_path, clock>>

\* Mutant of tap: a transition back to the current state is not applied.
tap_ignores_self_loop(device_id, x, y, delay) ==
    /\ commands' = record("tap", device_id, [x |-> x, y |-> y, delay |-> delay])
    /\ state_machine' =
          IF loaded /\ handle_tap(state_machine, x, y).current_state_id #
                          state_machine.current_state_id
          THEN handle_tap(state_machine, x, y)
          ELSE state_machine
    /\ resp' = Response("tap", 200, OkBody)
    /\ UNCHANGED <<scenario_path, clock>>

tap(device_id, x, y, delay) ==
    /\ commands' = record("tap", device_id, [x |-> x, y |-> y, delay |-> delay])
    /\ state_machine' = IF loaded THEN handle_tap(state_machine, x, y)
                                  ELSE state_machine
    /\ resp' = Response("tap", 200, OkBody)
    /\ UNCHANGED <<scenario_path, clock>>

\* Mutant of double_tap: the engine receives two tap events.
double_tap_twice(device_id, x, y, delay) ==
    /\ commands' = record("double_tap", device_id,
                          [x |-> x, y |-> y, delay |-> delay])
    /\ state_machine' = IF loaded
                        THEN handle_tap(handle_tap(state_machine, x, y), x, y)
                        ELSE state_machine
    /\ resp' = Response("double_tap", 200, OkBody)
    /\ UNCHANGED <<scenario_path, clock>>

double_tap(device_id, x, y, delay) ==
    /\ commands' = record("double_tap", device_id,
                          [x |-> x, y |-> y, delay |-> delay])
    /\ state_machine' = IF loaded THEN handle_tap(state_machine, x, y)
                                  ELSE state_machine
    /\ resp' = Response("double_tap", 200, OkBody)
    /\ UNCHANGED <<scenario_path, clock>>

\* Mutant of long_press: without an engine, the call starts one on the scenario
\* of the tests.
long_press_starts_engine(device_id, x, y, duration_ms, delay) ==
    /\ commands' = record("long_press", device_id,
                          [x |-> x, y |-> y, duration_ms |-> duration_ms,
                           delay |-> delay])
    /\ state_machine' = IF loaded THEN handle_tap(state_machine, x, y)
                                  ELSE load_test_case("message.yaml")
    /\ resp' = Response("long_press", 200, OkBody)
    /\ UNCHANGED <<scenario_path, clock>>

long_press(device_id, x, y, duration_ms, delay) ==
    /\ commands' = record("long_press", device_id,
                          [x |-> x, y |-> y, duration_ms |-> duration_ms,
                           delay |-> delay])
    /\ state_machine' = IF loaded THEN handle_tap(state_machine, x, y)
                                  ELSE state_machine
    /\ resp' = Response("long_press", 200, OkBody)
    /\ UNCHANGED <<scenario_path, clock>>

\* Mutant of swipe: the end point is matched instead of the start point.
swipe_matches_end(device_id, start_x, start_y, end_x, end_y, duration_ms, delay) ==
    /\ commands' = record("swipe", device_id,
                          [start_x |-> start_x, start_y |-> start_y,
                           end_x |-> end_x, end_y |-> end_y,
                           duration_ms |-> duration_ms, delay |-> delay])
    /\ state_machine' = IF loaded
                        THEN handle_swipe(state_machine, end_x, end_y,
                                          start_x, start_y)
                        ELSE state_machine
    /\ resp' = Response("swipe", 200, OkBody)
    /\ UNCHANGED <<scenario_path, clock>>

swipe(device_id, start_x, start_y, end_x, end_y, duration_ms, delay) ==
    /\ commands' = record("swipe", device_id,
                          [start_x |-> start_x, start_y |-> start_y,
                           end_x |-> end_x, end_y |-> end_y,
                           duration_ms |-> duration_ms, delay |-> delay])
    /\ state_machine' = IF loaded
                        THEN handle_swipe(state_machine, start_x, start_y,
                                          end_x, end_y)
                        ELSE state_machine
    /\ resp' = Response("swipe", 200, OkBody)
    /\ UNCHANGED <<scenario_path, clock>>

type_text(device_id, text) ==
    /\ commands' = record("type_text", device_id, [text |-> text])
    /\ resp' = Response("type_text", 200, OkBody)
    /\ UNCHANGED <<state_machine, scenario_path, clock>>

clear_text(device_id) ==
    /\ commands' = record("clear_text", device_id, EmptyParams)
    /\ resp' = Response("clear_text", 200, OkBody)
    /\ UNCHANGED <<state_machine, scenario_path, clock>>

\* Mutant of back: the engine returns to the initial state of the scenario.
back_to_initial(device_id, delay) ==
    /\ commands' = record("back", device_id, [delay |-> delay])
    /\ state_machine' = IF loaded
                        THEN ApplyTransition(state_machine,
                                             state_machine.initial_state_id)
                        ELSE state_machine
    /\ resp' = Response("back", 200, OkBody)
    /\ UNCHANGED <<scenario_path, clock>>

back(device_id, delay) ==
    /\ commands' = record("back", device_id, [delay |-> delay])
    /\ resp' = Response("back", 200, OkBody)
    /\ UNCHANGED <<state_machine, scenario_path, clock>>

\* Mutant of home: the engine steps back to the state it came from.
home_pops_history(device_id, delay) ==
    /\ commands' = record("home", device_id, [delay |-> delay])
    /\ state_machine' =
          IF loaded /\ Len(state_machine.state_history) > 1
          THEN LET shorter == SubSeq(state_machine.state_history, 1,
                                     Len(state_machine.state_history) - 1)
               IN [state_machine EXCEPT
                      !.state_history = shorter,
                      !.current_state_id = shorter[Len(shorter)]]
          ELSE state_machine
    /\ resp' = Response("home", 200, OkBody)
    /\ UNCHANGED <<scenario_path, clock>>

home(device_id, delay) ==
    /\ commands' = record("home", device_id, [delay |-> delay])
    /\ resp' = Response("home", 200, OkBody)
    /\ UNCHANGED <<state_machine, scenario_path, clock>>

launch_app(device_id, app_name, delay) ==
    /\ commands' = record("launch_app", device_id,
                          [app_name |-> app_name, delay |-> delay])
    /\ resp' = Response("launch_app", 200,
                         [status |-> "ok", success |-> TRUE])
    /\ UNCHANGED <<state_machine, scenario_path, clock>>

current_app(device_id) ==
    /\ commands' = record("get_current_app", device_id, EmptyParams)
    /\ resp' = Response("current_app", 200, [app_name |-> get_current_app])
    /\ UNCHANGED <<state_machine, scenario_path, clock>>

detect_keyboard(device_id) ==
    /\ commands' = record("detect_keyboard", device_id, EmptyParams)
    /\ resp' = Response("detect_keyboard", 200,
                         [original_ime |-> "com.mock.keyboard"])
    /\ UNCHANGED <<state_machine, scenario_path, clock>>

restore_keyboard(device_id, ime) ==
    /\ commands' = record("restore_keyboard", device_id, [ime |-> ime])
    /\ resp' = Response("restore_keyboard", 200, OkBody)
    /\ UNCHANGED <<state_machine, scenario_path, clock>>

(***************************************************************************)
(* Text: the query string of expect is a sequence of characters, each held *)
(* as its code point, as Python's ord gives it.                            *)
(***************************************************************************)
\* ord(c) of the characters action names and queries are written with.
Ord(c) ==
    CASE c = "a" -> 97 [] c = "b" -> 98 [] c = "c" -> 99 [] c = "d" -> 100
      [] c = "e" -> 101 [] c = "f" -> 102 [] c = "g" -> 103 [] c = "h" -> 104
      [] c = "i" -> 105 [] c = "j" -> 106 [] c = "k" -> 107 [] c = "l" -> 108
      [] c = "m" -> 109 [] c = "n" -> 110 [] c = "o" -> 111 [] c = "p" -> 112
      [] c = "q" -> 113 [] c = "r" -> 114 [] c = "s" -> 115 [] c = "t" -> 116
      [] c = "u" -> 117 [] c = "v" -> 118 [] c = "w" -> 119 [] c = "x" -> 120
      [] c = "y" -> 121 [] c = "z" -> 122 [] c = "_" -> 95 [] c = "," -> 44
      [] c = " " -> 32 [] c = "\t" -> 9 [] c = "\n" -> 10

\* The letters of a recorded action name.
Letters(name) ==
    CASE name = "tap" -> <<"t", "a", "p">>
      [] name = "double_tap" -> <<"d", "o", "u", "b", "l", "e", "_", "t", "a", "p">>
      [] name = "long_press" -> <<"l", "o", "n", "g", "_", "p", "r", "e", "s", "s">>
      [] name = "swipe" -> <<"s", "w", "i", "p", "e">>
      [] name = "type_text" -> <<"t", "y", "p", "e", "_", "t", "e", "x", "t">>
      [] name = "clear_text" -> <<"c", "l", "e", "a", "r", "_", "t", "e", "x", "t">>
      [] name = "back" -> <<"b", "a", "c", "k">>
      [] name = "home" -> <<"h", "o", "m", "e">>
      [] name = "launch_app" -> <<"l", "a", "u", "n", "c", "h", "_", "a", "p", "p">>
      [] name = "current_app" -> <<"c", "u", "r", "r", "e", "n", "t", "_", "a", "p", "p">>
      [] name = "get_current_app" ->
            <<"g", "e", "t", "_", "c", "u", "r", "r", "e", "n", "t", "_", "a", "p", "p">>
      [] name = "screenshot" -> <<"s", "c", "r", "e", "e", "n", "s", "h", "o", "t">>
      [] name = "detect_keyboard" ->
            <<"d", "e", "t", "e", "c", "t", "_", "k", "e", "y", "b", "o", "a", "r", "d">>
      [] name = "restore_keyboard" ->
            <<"r", "e", "s", "t", "o", "r", "e", "_", "k", "e", "y", "b", "o", "a", "r", "d">>

\* The characters of a recorded action name.
Chars(name) == [i \in DOMAIN Letters(name) |-> Ord(Letters(name)[i])]

\* ",".join(items)
RECURSIVE Join(_)
Join(items) ==
    IF Len(items) = 0 THEN << >>
    ELSE IF Len(items) = 1 THEN items[1]
    ELSE items[1] \o << Ord(",") >> \o Join(Tail(items))

\* s.split(","): the pieces between the commas; the empty string gives [""].
RECURSIVE SplitFrom(_, _)
SplitFrom(s, piece) ==
    IF Len(s) = 0 THEN << piece >>
    ELSE IF Head(s) = Ord(",") THEN << piece >> \o SplitFrom(Tail(s), << >>)
    ELSE SplitFrom(Tail(s), Append(piece, Head(s)))

Split(s) == SplitFrom(s, << >>)

\* The characters s.strip() removes, those str.isspace() holds for: U+0009 to
\* U+000D, U+001C to U+001F, the blank, U+0085, U+00A0, U+1680, U+2000 to
\* U+200A, U+2028, U+2029, U+202F, U+205F and U+3000.
Whitespace ==
    (9..13) \cup (28..32) \cup {133, 160, 5760} \cup (8192..8202)
       \cup {8232, 8233, 8239, 8287, 12288}

\* s.strip(): without the leading and trailing whitespace.
RECURSIVE LStrip(_)
LStrip(s) ==
    IF Len(s) > 0 /\ Head(s) \in Whitespace THEN LStrip(Tail(s)) ELSE s

RECURSIVE RStrip(_)
RStrip(s) ==
    IF Len(s) > 0 /\ s[Len(s)] \in Whitespace
    THEN RStrip(SubSeq(s, 1, Len(s) - 1))
    ELSE s

Strip(s) == RStrip(LStrip(s))

(***************************************************************************)
(* Test-control endpoints                                                  *)
(***************************************************************************)
\* GET /test/commands
get_commands ==
    /\ resp' = Response("/test/commands", 200,
                         [i \in 1..Len(commands) |-> to_dict(commands[i])])
    /\ UNCHANGED <<commands, state_machine, scenario_path, clock>>

\* Mutant of SimplifiedEntry: the entry carries the action only.
SimplifiedEntry_action_only(cmd) ==
    [k \in {"action"} |-> cmd.action]

\* One entry of GET /test/commands/actions: {"action": cmd.action, **cmd.params};
\* a param named "action" would replace the action.
SimplifiedEntry(cmd) ==
    [k \in {"action"} \cup DOMAIN cmd.params |->
        IF k \in DOMAIN cmd.params THEN cmd.params[k] ELSE cmd.action]

\* GET /test/commands/actions
get_command_actions ==
    /\ resp' = Response("/test/commands/actions", 200,
                         [i \in 1..Len(commands) |-> SimplifiedEntry(commands[i])])
    /\ UNCHANGED <<commands, state_machine, scenario_path, clock>>

\* Mutant of reset: the reset also drops the engine.
reset_drops_engine ==
    /\ commands' = << >>
    /\ state_machine' = NoStateMachine
    /\ resp' = Response("/test/reset", 200,
                         [status |-> "reset", commands_cleared |-> TRUE])
    /\ UNCHANGED <<scenario_path, clock>>

\* POST /test/reset, MockAgentState.reset
reset ==
    /\ commands' = << >>
    /\ resp' = Response("/test/reset", 200,
                         [status |-> "reset", commands_cleared |-> TRUE])
    /\ UNCHANGED <<state_machine, scenario_path, clock>>

\* Mutant of load_scenario: an engine that is already active is kept.
load_scenario_keeps_engine(path) ==
    /\ scenario_path' = Some(path)
    /\ IF ScenarioValid(path)
       THEN /\ state_machine' = IF loaded THEN state_machine
                                ELSE load_test_case(path)
            /\ resp' = Response("/test/load_scenario", 200,
                           [status |-> "loaded", scenario |-> path,
                            states |-> state_machine'.state_ids])
       ELSE /\ state_machine' = state_machine
            /\ resp' = Response("/test/load_scenario", 400,
                           [detail |-> "Failed to load scenario"])
    /\ UNCHANGED <<commands, clock>>

\* Mutant of load_scenario: the old engine is dropped before the loader runs.
load_scenario_drops_first(path) ==
    /\ scenario_path' = Some(path)
    /\ IF ScenarioValid(path)
       THEN /\ state_machine' = load_test_case(path)
            /\ resp' = Response("/test/load_scenario", 200,
                           [status |-> "loaded", scenario |-> path,
                            states |-> state_machine'.state_ids])
       ELSE /\ state_machine' = NoStateMachine
            /\ resp' = Response("/test/load_scenario", 400,
                           [detail |-> "Failed to load scenario"])
    /\ UNCHANGED <<commands, clock>>

\* Mutant of load_scenario: the new engine takes over the history of the one
\* it replaces.
load_scenario_keeps_history(path) ==
    /\ scenario_path' = Some(path)
    /\ IF ScenarioValid(path)
       THEN /\ state_machine' =
                  IF loaded
                  THEN [load_test_case(path) EXCEPT
                           !.state_history = state_machine.state_history]
                  ELSE load_test_case(path)
            /\ resp' = Response("/test/load_scenario", 200,
                           [status |-> "loaded", scenario |-> path,
                            states |-> state_machine'.state_ids])
       ELSE /\ state_machine' = state_machine
            /\ resp' = Response("/test/load_scenario", 400,
                           [detail |-> "Failed to load scenario"])
    /\ UNCHANGED <<commands, clock>>

\* Mutant of load_scenario: a successful load starts with an empty log.
load_scenario_clears_log(path) ==
    /\ scenario_path' = Some(path)
    /\ IF ScenarioValid(path)
       THEN /\ state_machine' = load_test_case(path)
            /\ commands' = << >>
            /\ resp' = Response("/test/load_scenario", 200,
                           [status |-> "loaded", scenario |-> path,
                            states |-> state_machine'.state_ids])
       ELSE /\ state_machine' = state_machine
            /\ commands' = commands
            /\ resp' = Response("/test/load_scenario", 400,
                           [detail |-> "Failed to load scenario"])
    /\ UNCHANGED clock

\* Mutant of load_scenario: every source that names an initial state becomes
\* the engine, as it stands.
load_scenario_unchecked(path) ==
    /\ scenario_path' = Some(path)
    /\ IF path \in DOMAIN ScenarioFiles
          /\ "initialStateId" \in DOMAIN ScenarioFiles[path]
       THEN /\ state_machine' = load_test_case(path)
            /\ resp' = Response("/test/load_scenario", 200,
                           [status |-> "loaded", scenario |-> path,
                            states |-> state_machine'.state_ids])
       ELSE /\ state_machine' = state_machine
            /\ resp' = Response("/test/load_scenario", 400,
                           [detail |-> "Failed to load scenario"])
    /\ UNCHANGED <<commands, clock>>

\* POST /test/load_scenario with MockAgentState.load_scenario: the path is
\* stored before the loader runs; a loader failure is answered with 400.
load_scenario(path) ==
    /\ scenario_path' = Some(path)
    /\ IF ScenarioValid(path)
       THEN /\ state_machine' = load_test_case(path)
            /\ resp' = Response("/test/load_scenario", 200,
                           [status |-> "loaded", scenario |-> path,
                            states |-> state_machine'.state_ids])
       ELSE /\ state_machine' = state_machine
            /\ resp' = Response("/test/load_scenario", 400,
                           [detail |-> "Failed to load scenario"])
    /\ UNCHANGED <<commands, clock>>

\* Mutant of get_state: the history is read before the latest transition has
\* appended to it, the current state after.
get_state_half_applied ==
    /\ resp' = Response("/test/state", 200,
                IF ~loaded
                THEN [current_state |-> None, history |-> << >>]
                ELSE [current_state |-> Some(state_machine.current_state_id),
                      history |-> SubSeq(state_machine.state_history, 1,
                                         Len(state_machine.state_history) - 1)])
    /\ UNCHANGED <<commands, state_machine, scenario_path, clock>>

\* Mutant of get_state: the query is recorded like a verb.
get_state_recorded ==
    /\ commands' = record("get_state", "test", EmptyParams)
    /\ resp' = Response("/test/state", 200,
                IF ~loaded
                THEN [current_state |-> None, history |-> << >>]
                ELSE [current_state |-> Some(state_machine.current_state_id),
                      history |-> state_machine.state_history])
    /\ UNCHANGED <<state_machine, scenario_path, clock>>

\* GET /test/state
get_state ==
    /\ resp' = Response("/test/state", 200,
                IF ~loaded
                THEN [current_state |-> None, history |-> << >>]
                ELSE [current_state |-> Some(state_machine.current_state_id),
                      history |-> state_machine.state_history])
    /\ UNCHANGED <<commands, state_machine, scenario_path, clock>>

\* The body of GET /test/expect?actions=...
ExpectResult(actions) ==
    LET pieces == Split(actions)
        expected == [i \in 1..Len(pieces) |-> Strip(pieces[i])]
        actual == [i \in 1..Len(commands) |-> commands[i].action]
        match == /\ Len(actual) = Len(expected)
                 /\ \A i \in 1..Len(actual) : Chars(actual[i]) = expected[i]
    IN [match |-> match, expected |-> expected, actual |-> actual,
        message |-> IF match THEN <<"Commands match!">>
                    ELSE <<"Mismatch: expected, got", expected, actual>>]

\* GET /test/expect
expect_commands(actions) ==
    /\ resp' = Response("/test/expect", 200, ExpectResult(actions))
    /\ UNCHANGED <<commands, state_machine, scenario_path, clock>>

\* MockAgentTestClient.expect
expect(actions) == expect_commands(Join(actions))

\* MockAgentTestClient.get_actions: the body of GET /test/commands/actions.
get_actions == [i \in 1..Len(commands) |-> SimplifiedEntry(commands[i])]

\* taps[index] of Python: from the front for index >= 0, from the back below.
\* The position in the list counted from 1, or 0 where Python raises IndexError.
ListIndex(list, index) ==
    IF index >= 0
    THEN IF index < Len(list) THEN index + 1 ELSE 0
    ELSE IF Len(list) + index >= 0 THEN Len(list) + index + 1 ELSE 0

\* How the helper ends for the taps it found.
TapInRegionOutcome(taps, x1, y1, x2, y2, index) ==
    IF ~(Len(taps) > index) THEN "AssertionError"
    ELSE IF ListIndex(taps, index) = 0 THEN "IndexError"
    ELSE LET tap_ == taps[ListIndex(taps, index)]
         IN IF ~(x1 <= tap_["x"] /\ tap_["x"] <= x2) THEN "AssertionError"
            ELSE IF ~(y1 <= tap_["y"] /\ tap_["y"] <= y2) THEN "AssertionError"
            ELSE "passed"

\* Mutant of assert_tap_in_region: the bounds of the region are exclusive.
assert_tap_in_region_exclusive(x1, y1, x2, y2, index) ==
    LET taps == SelectSeq(get_actions, LAMBDA a : a["action"] = "tap")
        outcome ==
            IF ~(Len(taps) > index) THEN "AssertionError"
            ELSE IF ListIndex(taps, index) = 0 THEN "IndexError"
            ELSE LET tap_ == taps[ListIndex(taps, index)]
                 IN IF x1 < tap_["x"] /\ tap_["x"] < x2
                       /\ y1 < tap_["y"] /\ tap_["y"] < y2
                    THEN "passed" ELSE "AssertionError"
    IN /\ resp' = Response("assert_tap_in_region", 200, [outcome |-> outcome])
       /\ UNCHANGED <<commands, state_machine, scenario_path, clock>>

\* MockAgentTestClient.assert_tap_in_region: the answer of the server is read
\* and judged; resp holds how the helper ended.
assert_tap_in_region(x1, y1, x2, y2, index) ==
    LET taps == SelectSeq(get_actions, LAMBDA a : a["action"] = "tap")
    IN /\ resp' = Response("assert_tap_in_region", 200,
                     [outcome |-> TapInRegionOutcome(taps, x1, y1, x2, y2, index)])
       /\ UNCHANGED <<commands, state_machine, scenario_path, clock>>

\* MockAgentTestClient.assert_state
assert_state(expected_state) ==
    LET state == IF ~loaded
                 THEN [current_state |-> None, history |-> << >>]
                 ELSE [current_state |-> Some(state_machine.current_state_id),
                       history |-> state_machine.state_history]
    IN /\ resp' = Response("assert_state", 200,
                     [outcome |-> IF state.current_state = Some(expected_state)
                                  THEN "passed" ELSE "AssertionError"])
       /\ UNCHANGED <<commands, state_machine, scenario_path, clock>>


(***************************************************************************)
(* Callers and their inputs                                                *)
(***************************************************************************)
\* The device that sends the motion events over the whole grid.
MotionDevices == {"device_1"}

Coords == 0..MaxCoord

\* Every point of the grid.
Grid == Coords \X Coords

\* Two end points for a swipe.
SwipeEnds == {<<0, 0>>, <<MaxCoord, MaxCoord>>}

\* A point inside and a point outside the tap region of message.yaml.
FewPoints == {<<1, 2>>, <<0, 0>>}

\* App names handed to launch_app: the one of the tests and the empty name.
AppNames == {"Meituan", ""}

\* The model stops recording at the log bound and stops moving at MaxHistory.
LogRoom(bound) == Len(commands) < bound
HistoryRoom == loaded => Len(state_machine.state_history) < MaxHistory

\* A call may be made: the log and the history have room in the model.
Room(bound) == LogRoom(bound) /\ HistoryRoom

\* The tap-like verbs and swipe, called by a device of D at a point of P.
TapCalls(bound, D, P) ==
    \E d \in D, p \in P :
        \/ Room(bound) /\ Direct(tap(d, p[1], p[2], None))
        \/ Room(bound) /\ Direct(double_tap(d, p[1], p[2], None))
        \/ Room(bound) /\ Direct(long_press(d, p[1], p[2], 3000, None))

SwipeCalls(bound, D, P, E) ==
    \E d \in D, p \in P, e \in E :
        Room(bound) /\ Direct(swipe(d, p[1], p[2], e[1], e[2], None, None))

\* The verbs that only exercise the recorder.
OtherCalls(bound, D) ==
    \E d \in D :
        \/ LogRoom(bound) /\ Direct(screenshot(d, 10))
        \/ LogRoom(bound) /\ Direct(type_text(d, "Hello World"))
        \/ LogRoom(bound) /\ Direct(clear_text(d))
        \/ LogRoom(bound) /\ Direct(back(d, None))
        \/ LogRoom(bound) /\ Direct(home(d, None))
        \/ \E app_name \in AppNames :
              LogRoom(bound) /\ Direct(launch_app(d, app_name, None))
        \/ LogRoom(bound) /\ Direct(current_app(d))
        \/ LogRoom(bound) /\ Direct(detect_keyboard(d))
        \/ LogRoom(bound) /\ Direct(restore_keyboard(d, ""))

\* Texts an expected action may be: two action names, the empty text and a
\* name with a leading blank and a trailing vertical tab (U+000B).
ExpectTexts ==
    {Chars("tap"), Chars("back"), << >>, << Ord(" ") >> \o Chars("tap") \o << 11 >>}

RECURSIVE SeqsUpTo(_, _)
SeqsUpTo(S, n) ==
    IF n = 0 THEN {<< >>}
    ELSE LET shorter == SeqsUpTo(S, n - 1)
         IN shorter \cup {Append(q, e) : q \in shorter, e \in S}

ExpectedLists == SeqsUpTo(ExpectTexts, MaxExpect)

(***************************************************************************)
(* Spec: every endpoint of the harness, few inputs.                        *)
(***************************************************************************)
Next ==
    \/ TapCalls(MaxLog, {"device_1"}, FewPoints)
    \/ SwipeCalls(MaxLog, {"device_2"}, {<<1, 2>>}, {<<0, 0>>})
    \/ OtherCalls(MaxLog, Devices)
    \/ \E path \in {"message.yaml", "missing.yaml"} : Direct(load_scenario(path))
    \/ Direct(reset)
    \/ Direct(get_state)
    \/ Direct(get_commands)
    \/ Direct(get_command_actions)
    \/ \E actions \in {<<Chars("tap")>>, << >>} : Direct(expect(actions))

Spec == Init /\ [][Next]_vars

(***************************************************************************)
(* SpecMotion: the engine under motion events over the whole grid.         *)
(***************************************************************************)
NextMotion ==
    \/ TapCalls(MaxMotionLog, MotionDevices, Grid)
    \/ SwipeCalls(MaxMotionLog, MotionDevices, Grid, SwipeEnds)
    \/ \E path \in Paths : Direct(load_scenario(path))
    \/ Direct(reset)
    \/ Direct(get_state)

SpecMotion == Init /\ [][NextMotion]_vars

(***************************************************************************)
(* SpecExpect: expect over every short list of expected actions.           *)
(***************************************************************************)
NextExpect ==
    \/ \E d \in {"device_1"} :
          \/ LogRoom(MaxLog) /\ Direct(tap(d, 1, 2, None))
          \/ LogRoom(MaxLog) /\ Direct(back(d, None))
          \/ LogRoom(MaxLog) /\ Direct(current_app(d))
    \/ Direct(reset)
    \/ \E actions \in ExpectedLists : Direct(expect(actions))

SpecExpect == Init /\ [][NextExpect]_vars

(***************************************************************************)
(* SpecScreen: two devices move one engine and look at its screen.         *)
(***************************************************************************)
\* On s0 of overlap.yaml (1, 1) lies in both Tap regions, (0, 0) in none; on s1
\* (1, 1) leads back and (0, 0) is the self-loop.
ScreenPoints == {<<1, 1>>, <<0, 0>>}

NextScreen ==
    \/ \E d \in Devices, p \in ScreenPoints :
          Room(MaxLog) /\ Direct(tap(d, p[1], p[2], None))
    \/ SwipeCalls(MaxLog, Devices, {<<1, 1>>}, {<<0, 0>>})
    \/ \E d \in Devices : LogRoom(MaxLog) /\ Direct(screenshot(d, 10))
    \/ \E d \in Devices : LogRoom(MaxLog) /\ Direct(current_app(d))
    \/ \E path \in {"overlap.yaml", "message.yaml"} : Direct(load_scenario(path))
    \/ Direct(reset)
    \/ Direct(get_state)
    \/ Direct(get_commands)

SpecScreen == Init /\ [][NextScreen]_vars

(***************************************************************************)
(* SpecClient: the helpers of the test client on a log of taps.            *)
(***************************************************************************)
\* Rectangles handed to assert_tap_in_region: the tap region of message.yaml,
\* one with (1, 2) in its corner, and one that holds neither tap point.
ClientRegions == {Rect(0, 1, 2, 2), Rect(1, 2, 2, 2), Rect(2, 0, 2, 1)}

\* index: the first tap, the second tap, and the last tap as Python counts.
ClientIndexes == {0, 1, -1}

\* State ids a test expects; the text "None" is not the None of a server
\* without engine.
ExpectedStates == {"home", "message", "None"}

NextClient ==
    \/ \E p \in FewPoints : Room(MaxLog) /\ Direct(tap("device_1", p[1], p[2], None))
    \/ Room(MaxLog) /\ Direct(double_tap("device_1", 1, 2, None))
    \/ Direct(load_scenario("message.yaml"))
    \/ Direct(reset)
    \/ \E r \in ClientRegions, index \in ClientIndexes :
          Direct(assert_tap_in_region(r[1], r[2], r[3], r[4], index))
    \/ \E expected_state \in ExpectedStates : Direct(assert_state(expected_state))

SpecClient == Init /\ [][NextClient]_vars

(***************************************************************************)
(* SpecClock: the recorder under a wall clock that the system may set.     *)
(***************************************************************************)
\* The wall clock that datetime.now() reads shows t from now on: time has
\* passed, or the system clock was set (forward or back).
wall_clock_shows(t) ==
    /\ clock' = t
    /\ UNCHANGED <<commands, state_machine, scenario_path, resp, inflight,
                   completed>>

NextClock ==
    \/ LogRoom(MaxLog) /\ Direct(tap("device_1", 1, 2, None))
    \/ LogRoom(MaxLog) /\ Direct(back("device_2", None))
    \/ Direct(reset)
    \/ Direct(get_commands)
    \/ \E t \in 0..MaxClock : wall_clock_shows(t)

SpecClock == Init /\ [][NextClock]_vars

(***************************************************************************)
(* SpecLoad: loads of every source, sound or not, between taps.            *)
(***************************************************************************)
NextLoad ==
    \/ \E path \in AllPaths : Direct(load_scenario(path))
    \/ TapCalls(MaxMotionLog, MotionDevices, ScreenPoints)
    \/ Direct(reset)
    \/ Direct(get_state)

SpecLoad == Init /\ [][NextLoad]_vars

(***************************************************************************)
(* SpecEngine: the engine is moved through the server and reset by a       *)
(* direct call of its reset(), which no route of the server makes.         *)
(***************************************************************************)
\* A test calls reset() on the active engine.
SimulationEngine_reset ==
    /\ loaded
    /\ state_machine' = engine_reset(state_machine)
    /\ resp' = Response("SimulationEngine.reset", 0, EmptyParams)
    /\ UNCHANGED <<commands, scenario_path, clock, inflight, completed>>

NextEngine ==
    \/ TapCalls(MaxMotionLog, MotionDevices, Grid)
    \/ SwipeCalls(MaxMotionLog, MotionDevices, Grid, SwipeEnds)
    \/ \E path \in {"overlap.yaml", "message.yaml"} :
          Direct(load_scenario(path))
    \/ Direct(reset)
    \/ SimulationEngine_reset
    \/ Direct(get_state)

SpecEngine == Init /\ [][NextEngine]_vars

(***************************************************************************)
(* SpecRace: concurrent callers. A request is received (Send) and later    *)
(* handled (Serve); the handlers are coroutines without an await, so the   *)
(* event loop runs each of them to its end before it takes another.        *)
(***************************************************************************)
\* A request as the server receives it: the route, the device id of the path
\* and the parameters of the body or the query.
Request(route, device_id, params) ==
    [route |-> route, device_id |-> device_id, params |-> params]

\* What the driving agent of a device sends.
DeviceRequests(d) ==
    IF d = "device_1"
    THEN { Request("tap", d, [x |-> 1, y |-> 1, delay |-> None]),
           Request("double_tap", d, [x |-> 1, y |-> 1, delay |-> None]),
           Request("screenshot", d, [timeout |-> 10]) }
    ELSE { Request("long_press", d, [x |-> 2, y |-> 1, duration_ms |-> 3000,
                                     delay |-> None]),
           Request("swipe", d, [start_x |-> 1, start_y |-> 1, end_x |-> 0,
                                end_y |-> 0, duration_ms |-> None,
                                delay |-> None]),
           Request("screenshot", d, [timeout |-> 10]) }

\* What the supervising test client sends.
SupervisorRequests ==
    { Request("/test/commands", None, EmptyParams),
      Request("/test/state", None, EmptyParams),
      Request("/test/reset", None, EmptyParams),
      Request("/test/load_scenario", None, [scenario_path |-> "overlap.yaml"]) }

RequestsOf(c) == IF c \in Devices THEN DeviceRequests(c) ELSE SupervisorRequests

VerbRoutes ==
    {"screenshot", "tap", "double_tap", "long_press", "swipe", "type_text",
     "clear_text", "back", "home", "launch_app", "current_app",
     "detect_keyboard", "restore_keyboard"}

\* The server receives a request of the caller.
Send(c, req) ==
    /\ inflight[c] = Idle
    /\ inflight' = [inflight EXCEPT ![c] = req]
    /\ UNCHANGED <<commands, state_machine, scenario_path, clock, resp,
                   completed>>

\* The event loop takes the request of the caller, which is for the route, and
\* runs the handler to its end; the caller has its answer.
Served(c, route, handler) ==
    /\ inflight[c].route = route
    /\ handler
    /\ inflight' = [inflight EXCEPT ![c] = Idle]
    /\ completed' = IF route \in VerbRoutes THEN Append(completed, inflight[c])
                    ELSE IF route = "/test/reset" THEN << >>
                    ELSE completed

\* The handler of each route, on the request in flight.
Serve(c) ==
    \/ Served(c, "tap",
              Room(MaxLog) /\ tap(inflight[c].device_id, inflight[c].params.x,
                                  inflight[c].params.y, inflight[c].params.delay))
    \/ Served(c, "double_tap",
              Room(MaxLog) /\ double_tap(inflight[c].device_id,
                                         inflight[c].params.x,
                                         inflight[c].params.y,
                                         inflight[c].params.delay))
    \/ Served(c, "long_press",
              Room(MaxLog) /\ long_press(inflight[c].device_id,
                                         inflight[c].params.x,
                                         inflight[c].params.y,
                                         inflight[c].params.duration_ms,
                                         inflight[c].params.delay))
    \/ Served(c, "swipe",
              Room(MaxLog) /\ swipe(inflight[c].device_id,
                                    inflight[c].params.start_x,
                                    inflight[c].params.start_y,
                                    inflight[c].params.end_x,
                                    inflight[c].params.end_y,
                                    inflight[c].params.duration_ms,
                                    inflight[c].params.delay))
    \/ Served(c, "screenshot",
              LogRoom(MaxLog) /\ screenshot(inflight[c].device_id,
                                            inflight[c].params.timeout))
    \/ Served(c, "/test/commands", get_commands)
    \/ Served(c, "/test/state", get_state)
    \/ Served(c, "/test/reset", reset)
    \/ Served(c, "/test/load_scenario",
              load_scenario(inflight[c].params.scenario_path))

NextRace ==
    \/ \E c \in Callers : \E req \in RequestsOf(c) : Send(c, req)
    \/ \E c \in Callers : Serve(c)

SpecRace == Init /\ [][NextRace]_vars


(***************************************************************************)
(* Claims                                                                  *)
(***************************************************************************)
\* The transitions declared on the current state of the active engine.
CurrentTransitions == state_machine.states[state_machine.current_state_id].transitions

\* The positions of the Tap transitions of the current state whose region
\* contains (x, y), bounds inclusive.
TapHits(x, y) ==
    { i \in DOMAIN CurrentTransitions :
        /\ CurrentTransitions[i].kind = "tap"
        /\ CurrentTransitions[i].region[1] <= x
        /\ x <= CurrentTransitions[i].region[3]
        /\ CurrentTransitions[i].region[2] <= y
        /\ y <= CurrentTransitions[i].region[4] }

Least(S) == CHOOSE i \in S : \A j \in S : i <= j

LastCommand == commands[Len(commands)]

\* C1: with an engine loaded, a tap at (x, y) that lies in some Tap region of
\* the current state moves the engine to the target of the first-declared such
\* transition and appends exactly that id to the history; where two Tap regions
\* overlap, the first-declared one wins.
C1_TapAppliesFirstDeclaredMatch ==
    [][(loaded /\ resp'.route = "tap") =>
        \A d \in MotionDevices, x \in Coords, y \in Coords :
          (tap(d, x, y, None) /\ TapHits(x, y) # {}) =>
              LET target == CurrentTransitions[Least(TapHits(x, y))].target
              IN /\ state_machine'.current_state_id = target
                 /\ state_machine'.state_history =
                        Append(state_machine.state_history, target)
                 /\ state_machine'.states = state_machine.states]_vars

\* C1 witness: a tap at (1, 1) on s0, where both Tap regions (and the Swipe
\* region declared before them) contain the point, has moved the engine to s1.
C1_Witness ==
    /\ loaded
    /\ scenario_path = Some("overlap.yaml")
    /\ state_machine.state_history = <<"s0", "s1">>
    /\ Len(commands) = 1
    /\ LastCommand.action = "tap"
    /\ LastCommand.params.x = 1 /\ LastCommand.params.y = 1

\* C2: with an engine loaded, a tap outside every Tap region of the current
\* state leaves the current state and the history unchanged, is answered ok, and
\* is still appended to the command log.
C2_TapOutsideChangesNothingButLog ==
    [][(loaded /\ resp'.route = "tap") =>
        \A d \in MotionDevices, x \in Coords, y \in Coords :
          (tap(d, x, y, None) /\ TapHits(x, y) = {}) =>
              /\ state_machine'.current_state_id = state_machine.current_state_id
              /\ state_machine'.state_history = state_machine.state_history
              /\ resp'.code = 200 /\ resp'.body = [status |-> "ok"]
              /\ Len(commands') = Len(commands) + 1
              /\ SubSeq(commands', 1, Len(commands)) = commands
              /\ commands'[Len(commands')].action = "tap"
              /\ commands'[Len(commands')].device_id = d
              /\ commands'[Len(commands')].params.x = x
              /\ commands'[Len(commands')].params.y = y]_vars

\* C2 witness: on s1 a tap at (0, 2), inside the Swipe region of s1 and outside
\* its Tap regions, was answered ok and recorded; the engine is still on s1.
C2_Witness ==
    /\ loaded
    /\ scenario_path = Some("overlap.yaml")
    /\ state_machine.state_history = <<"s0", "s1">>
    /\ resp = Response("tap", 200, OkBody)
    /\ Len(commands) = 1
    /\ LastCommand.action = "tap"
    /\ LastCommand.params.x = 0 /\ LastCommand.params.y = 2


\* The call appended exactly one record, naming the verb and the caller's
\* device, and left the earlier records in place.
RecordsVerb(verb, device_id) ==
    /\ Len(commands') = Len(commands) + 1
    /\ SubSeq(commands', 1, Len(commands)) = commands
    /\ commands'[Len(commands')].action = verb
    /\ commands'[Len(commands')].device_id = device_id

\* After one call of the verb on an empty log, expect([verb]) matches.
ThenExpectMatches(verb) ==
    commands = << >> => ExpectResult(Join(<< Chars(verb) >>))'.match

\* C3: every call of each of the 13 device-control verbs appends exactly one
\* record whose action is the verb's name and whose deviceId is the caller's,
\* with or without a scenario loaded; so expect([v]) matches after one call of v
\* on an empty log.
C3_EveryVerbRecordsItsOwnName ==
    [][\A d \in Devices :
          /\ \A p \in Grid :
                /\ tap(d, p[1], p[2], None) =>
                      RecordsVerb("tap", d) /\ ThenExpectMatches("tap")
                /\ double_tap(d, p[1], p[2], None) =>
                      RecordsVerb("double_tap", d) /\ ThenExpectMatches("double_tap")
                /\ long_press(d, p[1], p[2], 3000, None) =>
                      RecordsVerb("long_press", d) /\ ThenExpectMatches("long_press")
                /\ \A e \in SwipeEnds :
                      swipe(d, p[1], p[2], e[1], e[2], None, None) =>
                          RecordsVerb("swipe", d) /\ ThenExpectMatches("swipe")
          /\ screenshot(d, 10) =>
                RecordsVerb("screenshot", d) /\ ThenExpectMatches("screenshot")
          /\ type_text(d, "Hello World") =>
                RecordsVerb("type_text", d) /\ ThenExpectMatches("type_text")
          /\ clear_text(d) =>
                RecordsVerb("clear_text", d) /\ ThenExpectMatches("clear_text")
          /\ back(d, None) => RecordsVerb("back", d) /\ ThenExpectMatches("back")
          /\ home(d, None) => RecordsVerb("home", d) /\ ThenExpectMatches("home")
          /\ launch_app(d, "Meituan", None) =>
                RecordsVerb("launch_app", d) /\ ThenExpectMatches("launch_app")
          /\ current_app(d) =>
                RecordsVerb("current_app", d) /\ ThenExpectMatches("current_app")
          /\ detect_keyboard(d) =>
                RecordsVerb("detect_keyboard", d)
                    /\ ThenExpectMatches("detect_keyboard")
          /\ restore_keyboard(d, "") =>
                RecordsVerb("restore_keyboard", d)
                    /\ ThenExpectMatches("restore_keyboard")]_vars


\* The call appended exactly its own record: the verb, the caller's device and
\* the parameters of the call.
RecordsCall(verb, device_id, params) ==
    /\ RecordsVerb(verb, device_id)
    /\ commands'[Len(commands')].params = params

\* get_commands answers with one entry per record of the log, in log order.
AnswersWithLog ==
    /\ Len(resp'.body) = Len(commands)
    /\ \A i \in 1..Len(commands) :
          /\ resp'.body[i].action = commands[i].action
          /\ resp'.body[i].device_id = commands[i].device_id
          /\ resp'.body[i].params = commands[i].params

\* C4: the log holds the verb calls issued since the last reset, one record per
\* call, in submission order, each with the action, deviceId and params of its
\* call, and get_commands returns exactly that list: every verb call appends its
\* own record behind the earlier ones, reset empties the log, and get_commands
\* answers with the log.
C4_LogIsTheCallsInSubmissionOrder ==
    [][/\ \A d \in Devices :
             /\ \A p \in Grid :
                   /\ tap(d, p[1], p[2], None) =>
                         RecordsCall("tap", d,
                                     [x |-> p[1], y |-> p[2], delay |-> None])
                   /\ double_tap(d, p[1], p[2], None) =>
                         RecordsCall("double_tap", d,
                                     [x |-> p[1], y |-> p[2], delay |-> None])
                   /\ long_press(d, p[1], p[2], 3000, None) =>
                         RecordsCall("long_press", d,
                                     [x |-> p[1], y |-> p[2],
                                      duration_ms |-> 3000, delay |-> None])
                   /\ \A e \in SwipeEnds :
                         swipe(d, p[1], p[2], e[1], e[2], None, None) =>
                             RecordsCall("swipe", d,
                                         [start_x |-> p[1], start_y |-> p[2],
                                          end_x |-> e[1], end_y |-> e[2],
                                          duration_ms |-> None, delay |-> None])
             /\ screenshot(d, 10) => RecordsCall("screenshot", d, [timeout |-> 10])
             /\ type_text(d, "Hello World") =>
                   RecordsCall("type_text", d, [text |-> "Hello World"])
             /\ clear_text(d) => RecordsCall("clear_text", d, EmptyParams)
             /\ back(d, None) => RecordsCall("back", d, [delay |-> None])
             /\ home(d, None) => RecordsCall("home", d, [delay |-> None])
             /\ launch_app(d, "Meituan", None) =>
                   RecordsCall("launch_app", d,
                               [app_name |-> "Meituan", delay |-> None])
             /\ current_app(d) => RecordsCall("current_app", d, EmptyParams)
             /\ detect_keyboard(d) =>
                   RecordsCall("detect_keyboard", d, EmptyParams)
             /\ restore_keyboard(d, "") =>
                   RecordsCall("restore_keyboard", d, [ime |-> ""])
       /\ reset => commands' = << >>
       /\ get_commands => AnswersWithLog]_vars

\* C5: the reset endpoint empties the command log and leaves the engine (its
\* graph, current state and history) as it was; a get_commands right after the
\* reset answers with an empty list.
C5_ResetClearsLogAndKeepsEngine ==
    [][/\ reset => /\ commands' = << >>
                   /\ state_machine' = state_machine
       /\ (resp.route = "/test/reset" /\ get_commands) => resp'.body = << >>]_vars

\* C5 witness: a reset answered while the engine had moved to message; the log
\* is empty and the engine still holds its history.
C5_Witness ==
    /\ resp.route = "/test/reset"
    /\ commands = << >>
    /\ loaded
    /\ state_machine.current_state_id = "message"
    /\ state_machine.state_history = <<"home", "message">>


\* get_state answers with the initial state of the scenario at scenario_path.
AnswersInitialState ==
    LET initial == ScenarioFiles[scenario_path[1]].initialStateId
    IN resp'.body = [current_state |-> Some(initial), history |-> << initial >>]

\* C6: a successful load_scenario replaces the engine by a fresh one, whatever
\* the previous engine held: the current state is the initialStateId of the
\* loaded graph, the history is [initialStateId], and a get_state right after
\* the load answers exactly that.
C6_LoadStartsFreshEngine ==
    [][/\ \A path \in Paths :
             (load_scenario(path) /\ resp'.code = 200) =>
                 LET initial == ScenarioFiles[path].initialStateId
                 IN /\ state_machine' # NoStateMachine
                    /\ state_machine'.current_state_id = initial
                    /\ state_machine'.state_history = << initial >>
                    /\ state_machine'.state_ids = ScenarioFiles[path].stateIds
       /\ (resp.route = "/test/load_scenario" /\ resp.code = 200 /\ get_state)
             => AnswersInitialState]_vars

\* C6 witness: message.yaml was loaded after a tap had been recorded; the
\* engine is on home with history [home].
C6_Witness ==
    /\ resp.route = "/test/load_scenario" /\ resp.code = 200
    /\ scenario_path = Some("message.yaml")
    /\ state_machine.state_ids = <<"home", "message">>
    /\ state_machine.state_history = <<"home">>
    /\ Len(commands) = 1 /\ LastCommand.action = "tap"

\* C7: a load_scenario whose loader raises is answered with a client error and
\* leaves the engine as it was: the same current state and history, and no
\* engine if there was none.
C7_FailedLoadKeepsEngine ==
    [][\A path \in Paths :
          (load_scenario(path) /\ ~ScenarioValid(path)) =>
              /\ resp'.code = 400
              /\ state_machine' = state_machine]_vars

\* C7 witness: the load of a scenario with a dangling target was answered with
\* 400 while the engine stays on s1 with history [s0, s1].
C7_Witness ==
    /\ resp.route = "/test/load_scenario" /\ resp.code = 400
    /\ scenario_path = Some("dangling.yaml")
    /\ loaded
    /\ state_machine.state_history = <<"s0", "s1">>

\* The recorded action names, as texts, in log order.
RecordedTexts == [i \in 1..Len(commands) |-> Chars(commands[i].action)]

\* C8: for every log and every list of expected actions, the empty list
\* included, expect answers match = true exactly when the recorded action names
\* equal the list element for element and in length; expected is the list the
\* caller passed and actual is the recorded action names in log order.
C8_ExpectMatchesExactlyEqualLists ==
    [][\A actions \in ExpectedLists :
          expect(actions) =>
              /\ resp'.body.match = (RecordedTexts = actions)
              /\ resp'.body.expected = actions
              /\ resp'.body.actual =
                    [i \in 1..Len(commands) |-> commands[i].action]]_vars

QueryRoutes ==
    {"/test/expect", "/test/state", "/test/commands", "/test/commands/actions"}

\* C9: expect, get_state, get_commands and get_commands_simplified change
\* neither the command log (the query is not recorded) nor the engine, and a
\* mismatch is a normal answer of expect (status 200, match = false).
C9_QueriesChangeNothing ==
    [][/\ (/\ resp'.route \in QueryRoutes
           /\ \/ get_state \/ get_commands \/ get_command_actions
              \/ \E actions \in ExpectedLists : expect(actions))
          => /\ commands' = commands
             /\ state_machine' = state_machine
             /\ scenario_path' = scenario_path
             /\ resp'.code = 200
       /\ resp'.route = "/test/expect" => resp'.body.match \in BOOLEAN]_vars

\* C9 witness: expect(["tap"]) was answered with a mismatch on a log that holds
\* two other records, with an engine active.
C9_Witness ==
    /\ resp.route = "/test/expect" /\ resp.code = 200
    /\ resp.body.match = FALSE
    /\ resp.body.expected = << Chars("tap") >>
    /\ Len(commands) = 2
    /\ loaded

\* The engine received exactly one tap event at (x, y).
OneTapEvent(x, y) ==
    /\ state_machine' = handle_tap(state_machine, x, y)
    /\ Len(state_machine'.state_history) <= Len(state_machine.state_history) + 1

\* The record of the call is the record of a tap at the point, but for its
\* action name.
RecordedAsTapNamed(verb, device_id, x, y) ==
    commands' = Append(commands,
                       [action |-> verb, device_id |-> device_id,
                        params |-> [x |-> x, y |-> y, delay |-> None],
                        timestamp |-> clock])

\* C10 as claimed: with an engine loaded, tap, double_tap and long_press at
\* (x, y) each hand the engine one tap event, and their records differ in the
\* action name only.
C10_TapLikeVerbsDifferInNameOnly ==
    [][/\ (loaded /\ resp'.route = "tap") =>
             \A d \in MotionDevices, p \in Grid :
                tap(d, p[1], p[2], None) =>
                   OneTapEvent(p[1], p[2])
                       /\ RecordedAsTapNamed("tap", d, p[1], p[2])
       /\ (loaded /\ resp'.route = "double_tap") =>
             \A d \in MotionDevices, p \in Grid :
                double_tap(d, p[1], p[2], None) =>
                   OneTapEvent(p[1], p[2])
                       /\ RecordedAsTapNamed("double_tap", d, p[1], p[2])
       /\ (loaded /\ resp'.route = "long_press") =>
             \A d \in MotionDevices, p \in Grid :
                long_press(d, p[1], p[2], 3000, None) =>
                   OneTapEvent(p[1], p[2])
                       /\ RecordedAsTapNamed("long_press", d, p[1], p[2])]_vars

\* C10 amended: with an engine loaded, tap, double_tap and long_press at (x, y)
\* each hand the engine one tap event, so the three leave the same current
\* state and history and append at most one id; the records of tap and
\* double_tap differ in the action name only, and the record of long_press
\* carries duration_ms besides.
C10_TapLikeVerbsAreOneTapEvent ==
    [][/\ (loaded /\ resp'.route = "tap") =>
             \A d \in MotionDevices, p \in Grid :
                tap(d, p[1], p[2], None) =>
                   OneTapEvent(p[1], p[2])
                       /\ RecordedAsTapNamed("tap", d, p[1], p[2])
       /\ (loaded /\ resp'.route = "double_tap") =>
             \A d \in MotionDevices, p \in Grid :
                double_tap(d, p[1], p[2], None) =>
                   OneTapEvent(p[1], p[2])
                       /\ RecordedAsTapNamed("double_tap", d, p[1], p[2])
       /\ (loaded /\ resp'.route = "long_press") =>
             \A d \in MotionDevices, p \in Grid :
                long_press(d, p[1], p[2], 3000, None) =>
                   /\ OneTapEvent(p[1], p[2])
                   /\ RecordsCall("long_press", d,
                                  [x |-> p[1], y |-> p[2], duration_ms |-> 3000,
                                   delay |-> None])]_vars

\* C10 witness: a double_tap at (1, 1) on s0 moved the engine to s1 and no
\* further, although (1, 1) is a Tap region of s1 as well.
C10_Witness ==
    /\ loaded
    /\ state_machine.state_history = <<"s0", "s1">>
    /\ Len(commands) = 1
    /\ LastCommand.action = "double_tap"
    /\ LastCommand.params.x = 1 /\ LastCommand.params.y = 1

\* The positions of the Swipe transitions of the current state whose region
\* contains (x, y), bounds inclusive.
SwipeHits(x, y) ==
    { i \in DOMAIN CurrentTransitions :
        /\ CurrentTransitions[i].kind = "swipe"
        /\ CurrentTransitions[i].region[1] <= x
        /\ x <= CurrentTransitions[i].region[3]
        /\ CurrentTransitions[i].region[2] <= y
        /\ y <= CurrentTransitions[i].region[4] }

\* The engine after the transition at position i of the current state fired.
Fired(i) ==
    [state_machine EXCEPT
        !.current_state_id = CurrentTransitions[i].target,
        !.state_history = Append(@, CurrentTransitions[i].target)]

\* C11: with an engine loaded, a swipe applies the first-declared Swipe
\* transition of the current state whose region contains the start point and
\* changes nothing when there is none, whatever Tap regions contain the point
\* and whatever the end point is; a tap never fires a Swipe transition: it
\* applies the first-declared Tap transition or nothing.
C11_SwipeAppliesFirstSwipeMatchOfStart ==
    [][/\ (loaded /\ resp'.route = "swipe") =>
             \A d \in MotionDevices, p \in Grid, e \in SwipeEnds :
                swipe(d, p[1], p[2], e[1], e[2], None, None) =>
                   /\ state_machine' =
                         IF SwipeHits(p[1], p[2]) = {} THEN state_machine
                         ELSE Fired(Least(SwipeHits(p[1], p[2])))
                   /\ \A e2 \in SwipeEnds :
                         state_machine' = handle_swipe(state_machine, p[1], p[2],
                                                       e2[1], e2[2])
       /\ (loaded /\ resp'.route = "tap") =>
             \A d \in MotionDevices, p \in Grid :
                tap(d, p[1], p[2], None) =>
                   state_machine' =
                         IF TapHits(p[1], p[2]) = {} THEN state_machine
                         ELSE Fired(Least(TapHits(p[1], p[2])))]_vars

\* C11 witness: a swipe from (1, 1) to (0, 0) on s0, where both Swipe regions
\* and both Tap regions contain the start point and no region contains the end
\* point, has moved the engine to s2, the target of the first Swipe region.
C11_Witness ==
    /\ loaded
    /\ scenario_path = Some("overlap.yaml")
    /\ state_machine.state_history = <<"s0", "s2">>
    /\ Len(commands) = 1
    /\ LastCommand.action = "swipe"
    /\ LastCommand.params.start_x = 1 /\ LastCommand.params.start_y = 1
    /\ LastCommand.params.end_x = 0 /\ LastCommand.params.end_y = 0

\* The call appended exactly one record, with the caller's device, behind the
\* earlier records, and left the engine as it was.
RecordsAndKeepsEngine(device_id) ==
    /\ Len(commands') = Len(commands) + 1
    /\ SubSeq(commands', 1, Len(commands)) = commands
    /\ commands'[Len(commands')].device_id = device_id
    /\ state_machine' = state_machine

RecorderOnlyRoutes ==
    {"type_text", "clear_text", "back", "home", "launch_app", "detect_keyboard",
     "restore_keyboard", "screenshot", "current_app"}

\* C12: type_text, clear_text, back, home, launch_app, detect_keyboard,
\* restore_keyboard, screenshot and current_app leave the engine (current state
\* and history) unchanged and append their record to the log; launch_app
\* answers success = true for every app name, with or without an engine.
C12_RecorderOnlyVerbsKeepEngine ==
    [][(resp'.route \in RecorderOnlyRoutes) =>
          \A d \in Devices :
             /\ type_text(d, "Hello World") => RecordsAndKeepsEngine(d)
             /\ clear_text(d) => RecordsAndKeepsEngine(d)
             /\ back(d, None) => RecordsAndKeepsEngine(d)
             /\ home(d, None) => RecordsAndKeepsEngine(d)
             /\ \A app_name \in AppNames :
                   launch_app(d, app_name, None) =>
                       /\ RecordsAndKeepsEngine(d)
                       /\ resp'.code = 200
                       /\ resp'.body.success = TRUE
             /\ detect_keyboard(d) => RecordsAndKeepsEngine(d)
             /\ restore_keyboard(d, "") => RecordsAndKeepsEngine(d)
             /\ screenshot(d, 10) => RecordsAndKeepsEngine(d)
             /\ current_app(d) => RecordsAndKeepsEngine(d)]_vars

\* C12 witness: after a tap had moved the engine to message, a back was
\* answered and recorded; the engine is still on message with history
\* [home, message].
C12_Witness ==
    /\ loaded
    /\ state_machine.current_state_id = "message"
    /\ state_machine.state_history = <<"home", "message">>
    /\ resp = Response("back", 200, OkBody)
    /\ Len(commands) = 2
    /\ commands[1].action = "tap"
    /\ LastCommand.action = "back"

\* The scenario source the active engine was loaded from.
LoadedSource ==
    ScenarioFiles[CHOOSE p \in DOMAIN ScenarioFiles :
                     ScenarioFiles[p].stateIds = state_machine.state_ids]

\* The declaration of the state the engine is on.
DeclaredCurrent == LoadedSource.states[state_machine.current_state_id]

\* C13: with an engine loaded, screenshot answers with the declared screenshot
\* (data, width, height) of the state named by the current state id, and
\* current_app with the declared currentApp of that state, after any sequence
\* of verb calls.
C13_ScreenIsTheDeclaredCurrentState ==
    [][(loaded /\ resp'.route \in {"screenshot", "current_app"}) =>
          \A d \in Devices :
             /\ screenshot(d, 10) =>
                   /\ resp'.body.base64_data = DeclaredCurrent.screenshot.base64
                   /\ resp'.body.width = DeclaredCurrent.screenshot.width
                   /\ resp'.body.height = DeclaredCurrent.screenshot.height
             /\ current_app(d) =>
                   resp'.body.app_name = DeclaredCurrent.currentApp]_vars

\* C13 witness: right after a tap at (1, 1) that moved the engine from s0 to
\* s1, screenshot answered with the declared screenshot of s1.
C13_Witness ==
    /\ loaded
    /\ state_machine.state_history = <<"s0", "s1">>
    /\ Len(commands) = 2
    /\ commands[1].action = "tap"
    /\ commands[2].action = "screenshot"
    /\ resp.route = "screenshot"
    /\ resp.body.base64_data = "png_s1"
    /\ resp.body.width = 1080 /\ resp.body.height = 2400

\* The call was answered ok and recorded, and there is still no engine.
OkRecordedWithoutEngine(device_id) ==
    /\ resp'.code = 200 /\ resp'.body = [status |-> "ok"]
    /\ Len(commands') = Len(commands) + 1
    /\ commands'[Len(commands')].device_id = device_id
    /\ state_machine' = NoStateMachine

MotionRoutes == {"tap", "double_tap", "long_press", "swipe"}

\* C14: while no scenario has been loaded successfully, screenshot answers with
\* the placeholder (width 1080, height 2400, empty data, not sensitive),
\* current_app with the placeholder identifier, get_state with current_state =
\* null and an empty history, and tap, double_tap, long_press and swipe are
\* answered ok and recorded without an engine coming into being: only a
\* successful load_scenario creates one.
C14_NoEngineIsNotAnError ==
    [][~loaded =>
          /\ (resp'.route \in MotionRoutes \cup {"screenshot", "current_app"}) =>
                \A d \in Devices :
                   /\ screenshot(d, 10) =>
                         /\ resp'.code = 200
                         /\ resp'.body = [base64_data |-> "", width |-> 1080,
                                          height |-> 2400, is_sensitive |-> FALSE]
                   /\ current_app(d) =>
                         /\ resp'.code = 200
                         /\ resp'.body = [app_name |-> "com.mock.app"]
                   /\ \A p \in Grid :
                         /\ tap(d, p[1], p[2], None) => OkRecordedWithoutEngine(d)
                         /\ double_tap(d, p[1], p[2], None) =>
                               OkRecordedWithoutEngine(d)
                         /\ long_press(d, p[1], p[2], 3000, None) =>
                               OkRecordedWithoutEngine(d)
                         /\ \A e \in SwipeEnds :
                               swipe(d, p[1], p[2], e[1], e[2], None, None) =>
                                  OkRecordedWithoutEngine(d)
          /\ get_state =>
                /\ resp'.code = 200
                /\ resp'.body = [current_state |-> None, history |-> << >>]
          /\ (resp'.route # "/test/load_scenario" \/ resp'.code # 200) =>
                state_machine' = NoStateMachine]_vars

\* C14 witness: with no engine, after a failed load, a tap and a swipe were
\* recorded and get_state answered {null, empty}.
C14_Witness ==
    /\ ~loaded
    /\ scenario_path = Some("missing.yaml")
    /\ Len(commands) = 2
    /\ commands[1].action = "tap"
    /\ commands[2].action = "swipe"
    /\ resp = Response("/test/state", 200,
                       [current_state |-> None, history |-> << >>])

\* The records of the log made with the device id, in log order.
ByDevice(log, device_id) == SelectSeq(log, LAMBDA c : c.device_id = device_id)

\* The call appended its record to the calls of its own device and left the
\* calls of every other device as they were.
RecordedForOwnDevice(device_id, verb, params) ==
    /\ ByDevice(commands', device_id) =
          Append(ByDevice(commands, device_id),
                 [action |-> verb, device_id |-> device_id, params |-> params,
                  timestamp |-> clock])
    /\ \A other \in Devices \ {device_id} :
          ByDevice(commands', other) = ByDevice(commands, other)

\* C15: every device id moves the same engine and writes to the same log: a
\* tap or swipe of any device takes the one engine to the state the
\* coordinates determine, whichever device calls, and its record carries the
\* device id of the call, so the log filtered by a device id is the calls of
\* that device in order.
C15_DevicesShareEngineAndRecorder ==
    [][(resp'.route \in {"tap", "swipe"}) =>
          \A d \in Devices :
             /\ \A p \in ScreenPoints :
                   tap(d, p[1], p[2], None) =>
                      /\ state_machine' =
                            IF loaded THEN handle_tap(state_machine, p[1], p[2])
                            ELSE state_machine
                      /\ RecordedForOwnDevice(d, "tap",
                              [x |-> p[1], y |-> p[2], delay |-> None])
             /\ swipe(d, 1, 1, 0, 0, None, None) =>
                   /\ state_machine' =
                         IF loaded THEN handle_swipe(state_machine, 1, 1, 0, 0)
                         ELSE state_machine
                   /\ RecordedForOwnDevice(d, "swipe",
                           [start_x |-> 1, start_y |-> 1, end_x |-> 0,
                            end_y |-> 0, duration_ms |-> None,
                            delay |-> None])]_vars

\* C15 witness: a tap of device_1 and then a tap of device_2, both at (1, 1),
\* moved the one engine from s0 to s1 and back to s0; the log filtered by either
\* device holds exactly one record.
C15_Witness ==
    /\ loaded
    /\ state_machine.state_history = <<"s0", "s1", "s0">>
    /\ Len(commands) = 2
    /\ commands[1].action = "tap" /\ commands[1].device_id = "device_1"
    /\ commands[2].action = "tap" /\ commands[2].device_id = "device_2"
    /\ Len(ByDevice(commands, "device_1")) = 1
    /\ Len(ByDevice(commands, "device_2")) = 1

\* The entries are the records of the handled verb requests, one for one and in
\* the order in which they were handled.
IsTheCompletedCalls(entries) ==
    /\ Len(entries) = Len(completed)
    /\ \A i \in 1..Len(completed) :
          /\ entries[i].action = completed[i].route
          /\ entries[i].device_id = completed[i].device_id
          /\ entries[i].params = completed[i].params

\* C16: with requests of several callers in flight at once, handled in any
\* order, the log is at every moment the records of the verb requests handled
\* since the last handled reset, in the order in which they were handled, none
\* lost and none twice, and every answer of get_commands is that sequence.
C16_LogIsTheCompletedCallsInOrder ==
    /\ [](IsTheCompletedCalls(commands))
    /\ [][resp'.route = "/test/commands" =>
             \A c \in Callers :
                Served(c, "/test/commands", get_commands) =>
                    IsTheCompletedCalls(resp'.body)]_vars

\* C16 witness: get_commands was answered with two records, a swipe of
\* device_2 handled before a tap of device_1, while a further request of
\* device_2 is in flight.
C16_Witness ==
    /\ resp.route = "/test/commands"
    /\ Len(resp.body) = 2
    /\ Len(completed) = 2
    /\ completed[1].route = "swipe" /\ completed[1].device_id = "device_2"
    /\ completed[2].route = "tap" /\ completed[2].device_id = "device_1"
    /\ inflight["device_2"] # Idle
    /\ inflight["supervisor"] = Idle

\* C17: after any sequence of taps and swipes, reset() of the engine leaves it
\* as a freshly loaded engine of the same scenario: the current state is the
\* initialStateId, the history is [initialStateId] and the graph is unchanged,
\* so the same transitions fire afterwards; a get_state that follows answers
\* {initialStateId, [initialStateId]}.
C17_EngineResetRestoresInitialState ==
    [][/\ SimulationEngine_reset =>
             /\ state_machine'.current_state_id = LoadedSource.initialStateId
             /\ state_machine'.state_history = << LoadedSource.initialStateId >>
             /\ state_machine'.states = state_machine.states
             /\ \E path \in DOMAIN ScenarioFiles :
                   /\ ScenarioFiles[path] = LoadedSource
                   /\ state_machine' = load_test_case(path)
       /\ (resp.route = "SimulationEngine.reset" /\ get_state) =>
             resp'.body = [current_state |-> Some(LoadedSource.initialStateId),
                           history |-> << LoadedSource.initialStateId >>]]_vars

\* C17 witness: reset() was the latest call on the engine of overlap.yaml, with
\* a swipe in the log; the engine is on s0 with history [s0].
C17_Witness ==
    /\ resp.route = "SimulationEngine.reset"
    /\ loaded
    /\ state_machine.state_ids = <<"s0", "s1", "s2">>
    /\ state_machine.current_state_id = "s0"
    /\ state_machine.state_history = <<"s0">>
    /\ Len(commands) = 1 /\ LastCommand.action = "swipe"

\* The records of the log whose action is tap, in log order.
TapRecords == SelectSeq(commands, LAMBDA c : c.action = "tap")

\* The tap at position n, counted from 0, lies outside the rectangle.
NthTapOutside(n, x1, y1, x2, y2) ==
    \/ TapRecords[n + 1].params.x < x1 \/ TapRecords[n + 1].params.x > x2
    \/ TapRecords[n + 1].params.y < y1 \/ TapRecords[n + 1].params.y > y2

\* C18: assert_tap_in_region with index n >= 0 raises an assertion failure
\* exactly when fewer than n + 1 tap records are in the log or the n-th tap has
\* x outside [x1, x2] or y outside [y1, y2], and passes otherwise;
\* assert_state fails exactly when the current state differs from the expected
\* one; neither changes the log or the engine.
C18_HelpersJudgeTapsAndState ==
    [][/\ resp'.route = "assert_tap_in_region" =>
             \A r \in ClientRegions, n \in {i \in ClientIndexes : i >= 0} :
                assert_tap_in_region(r[1], r[2], r[3], r[4], n) =>
                   /\ resp'.body.outcome \in {"passed", "AssertionError"}
                   /\ (resp'.body.outcome = "AssertionError") <=>
                         \/ Len(TapRecords) < n + 1
                         \/ NthTapOutside(n, r[1], r[2], r[3], r[4])
                   /\ commands' = commands /\ state_machine' = state_machine
       /\ resp'.route = "assert_state" =>
             \A expected_state \in ExpectedStates :
                assert_state(expected_state) =>
                   /\ (resp'.body.outcome = "AssertionError") <=>
                         \/ ~loaded
                         \/ state_machine.current_state_id # expected_state
                   /\ resp'.body.outcome \in {"passed", "AssertionError"}
                   /\ commands' = commands /\ state_machine' = state_machine]_vars

\* C18 witness: with a double_tap and then a tap at (1, 2) in the log,
\* assert_tap_in_region passed for index 0; the tap lies in the corner of
\* one of the rectangles and inside another.
C18_Witness ==
    /\ resp = Response("assert_tap_in_region", 200, [outcome |-> "passed"])
    /\ Len(commands) = 2
    /\ commands[1].action = "double_tap"
    /\ commands[2].action = "tap"
    /\ commands[2].params.x = 1 /\ commands[2].params.y = 2

Last(seq) == seq[Len(seq)]

\* The answer is the whole declared screenshot of one state of the history.
IsScreenOfAVisitedState(body) ==
    \E id \in Range(state_machine.state_history) :
       /\ body.base64_data = LoadedSource.states[id].screenshot.base64
       /\ body.width = LoadedSource.states[id].screenshot.width
       /\ body.height = LoadedSource.states[id].screenshot.height

\* C19: with motion verbs, get_state and screenshot of several callers in
\* flight at once, no read meets a half-applied transition: between handlers
\* the current state of the engine is the last element of its history, every
\* get_state answer has current_state equal to the last element of the history
\* it returns, and every screenshot answer is the declared screenshot of one
\* state that has been current.
C19_ReadsSeeWholeTransitions ==
    /\ [](loaded => state_machine.current_state_id =
                        Last(state_machine.state_history))
    /\ [][(loaded /\ resp'.route \in {"/test/state", "screenshot"}) =>
             \A c \in Callers :
                /\ Served(c, "/test/state", get_state) =>
                      /\ resp'.body.history = state_machine.state_history
                      /\ resp'.body.current_state = Some(Last(resp'.body.history))
                /\ Served(c, "screenshot",
                          screenshot(inflight[c].device_id,
                                     inflight[c].params.timeout)) =>
                      IsScreenOfAVisitedState(resp'.body)]_vars

\* C19 witness: get_state answered {s2, [s0, s2]} right after a swipe of
\* device_2 was handled, while a tap of device_1 is in flight.
C19_Witness ==
    /\ resp = Response("/test/state", 200,
                       [current_state |-> Some("s2"), history |-> <<"s0", "s2">>])
    /\ Len(commands) = 1
    /\ LastCommand.action = "swipe"
    /\ inflight["device_1"] # Idle
    /\ inflight["device_1"].route = "tap"

\* The step appended the record of the request in flight of the caller and
\* took the engine, if there is one, to the given state, both at once.
RecordedAndApplied(c, engine_after) ==
    /\ commands' = Append(commands,
                          [action |-> inflight[c].route,
                           device_id |-> inflight[c].device_id,
                           params |-> inflight[c].params,
                           timestamp |-> clock])
    /\ state_machine' = IF loaded THEN engine_after ELSE state_machine

\* C20: with requests of several callers in flight at once, a motion verb
\* records its command and applies its transition in one step: no state between
\* handlers has the record without the transition, the engine moves only in the
\* step that appends the record of a motion verb (or loads a scenario), and so
\* the taps reach the engine in the order of their records.
C20_MotionRecordsAndAppliesAtOnce ==
    [][/\ (resp'.route \in MotionRoutes) =>
             \A c \in Devices :
                /\ Served(c, "tap",
                          tap(inflight[c].device_id, inflight[c].params.x,
                              inflight[c].params.y, inflight[c].params.delay)) =>
                      RecordedAndApplied(c,
                          handle_tap(state_machine, inflight[c].params.x,
                                     inflight[c].params.y))
                /\ Served(c, "double_tap",
                          double_tap(inflight[c].device_id, inflight[c].params.x,
                                     inflight[c].params.y,
                                     inflight[c].params.delay)) =>
                      RecordedAndApplied(c,
                          handle_tap(state_machine, inflight[c].params.x,
                                     inflight[c].params.y))
                /\ Served(c, "long_press",
                          long_press(inflight[c].device_id, inflight[c].params.x,
                                     inflight[c].params.y,
                                     inflight[c].params.duration_ms,
                                     inflight[c].params.delay)) =>
                      RecordedAndApplied(c,
                          handle_tap(state_machine, inflight[c].params.x,
                                     inflight[c].params.y))
                /\ Served(c, "swipe",
                          swipe(inflight[c].device_id,
                                inflight[c].params.start_x,
                                inflight[c].params.start_y,
                                inflight[c].params.end_x,
                                inflight[c].params.end_y,
                                inflight[c].params.duration_ms,
                                inflight[c].params.delay)) =>
                      RecordedAndApplied(c,
                          handle_swipe(state_machine,
                                       inflight[c].params.start_x,
                                       inflight[c].params.start_y,
                                       inflight[c].params.end_x,
                                       inflight[c].params.end_y))
       /\ (state_machine' # state_machine
              /\ resp'.route # "/test/load_scenario") =>
             /\ Len(commands') = Len(commands) + 1
             /\ commands'[Len(commands')].action \in MotionRoutes]_vars

\* C20 witness: the log holds a long_press of device_2 and then a tap of
\* device_1, the tap was the latest request handled, and the engine is on s2
\* with history [s0, s2], where the long_press at (2, 1) leads from s0 and the
\* tap at (1, 1) finds no region; get_commands of the supervisor is in flight.
C20_Witness ==
    /\ loaded
    /\ Len(commands) = 2
    /\ commands[1].action = "long_press" /\ commands[1].device_id = "device_2"
    /\ commands[2].action = "tap" /\ commands[2].device_id = "device_1"
    /\ state_machine.state_history = <<"s0", "s2">>
    /\ resp.route = "tap"
    /\ inflight["supervisor"] = Request("/test/commands", None, EmptyParams)

\* The hit that fires at (x, y) leads back to the current state.
SelfLoopAt(hits) ==
    /\ hits # {}
    /\ CurrentTransitions[Least(hits)].target = state_machine.current_state_id

\* The engine entered its current state once more.
ReEntered ==
    /\ state_machine'.current_state_id = state_machine.current_state_id
    /\ state_machine'.state_history =
          Append(state_machine.state_history, state_machine.current_state_id)

\* C21: a loaded engine has no terminal state: on every state, the ones without
\* outgoing transitions included, a tap and a swipe, inside a region or
\* outside, can be handled, and at every point they are answered ok; a transition whose target is the current state
\* fires like any other: the current state stays and its id is appended to the
\* history once more.
C21_NoTerminalStateAndSelfLoops ==
    /\ [](loaded =>
            \A d \in MotionDevices, p \in ScreenPoints :
               /\ ENABLED tap(d, p[1], p[2], None)
               /\ ENABLED swipe(d, p[1], p[2], 0, 0, None, None))
    /\ [][(loaded /\ resp'.route \in {"tap", "swipe"}) =>
             \A d \in MotionDevices, p \in Grid :
                /\ tap(d, p[1], p[2], None) =>
                      /\ resp'.code = 200 /\ resp'.body = [status |-> "ok"]
                      /\ SelfLoopAt(TapHits(p[1], p[2])) => ReEntered
                /\ \A e \in SwipeEnds :
                      swipe(d, p[1], p[2], e[1], e[2], None, None) =>
                         /\ resp'.code = 200 /\ resp'.body = [status |-> "ok"]
                         /\ SelfLoopAt(SwipeHits(p[1], p[2])) => ReEntered]_vars

\* C21 witness: on s1 a tap at (0, 0), the self-loop of s1, was handled: the
\* engine is on s1 and the history ends with s1 twice.
C21_Witness ==
    /\ loaded
    /\ state_machine.current_state_id = "s1"
    /\ state_machine.state_history = <<"s0", "s1", "s1">>
    /\ resp = Response("tap", 200, OkBody)
    /\ LastCommand.params.x = 0 /\ LastCommand.params.y = 0

\* A Tap or Swipe transition declared on the state leads to the target.
DeclaredStep(from, to) ==
    \E i \in DOMAIN state_machine.states[from].transitions :
       /\ state_machine.states[from].transitions[i].kind \in {"tap", "swipe"}
       /\ state_machine.states[from].transitions[i].target = to

\* C22: whenever an engine is loaded, its history is non-empty, starts with the
\* initialStateId of the graph and ends with the current state id, the current
\* state id is a key of the graph's states, and every two consecutive ids of
\* the history are source and target of a Tap or Swipe transition declared on
\* the first of them.
C22_HistoryIsADeclaredPath ==
    loaded =>
        /\ Len(state_machine.state_history) > 0
        /\ state_machine.state_history[1] = state_machine.initial_state_id
        /\ state_machine.initial_state_id = LoadedSource.initialStateId
        /\ state_machine.state_history[Len(state_machine.state_history)] =
              state_machine.current_state_id
        /\ state_machine.current_state_id \in DOMAIN state_machine.states
        /\ \A i \in 1..(Len(state_machine.state_history) - 1) :
              DeclaredStep(state_machine.state_history[i],
                           state_machine.state_history[i + 1])

\* C22 witness: the engine of overlap.yaml went from s0 to s2 and a failed load
\* of another scenario came after; the history is [s0, s2].
C22_Witness ==
    /\ loaded
    /\ state_machine.state_history = <<"s0", "s2">>
    /\ state_machine.current_state_id = "s2"
    /\ scenario_path = Some("inverted.yaml")
    /\ resp.code = 400

\* The step is a successful load: it replaces the engine.
LoadsAnEngine == resp'.route = "/test/load_scenario" /\ resp'.code = 200

\* C23: the history of an engine is append-only until the next load: every
\* step that is not a successful load keeps the engine and leaves its history
\* unchanged or appends exactly one id, so an earlier get_state answer is a
\* prefix of a later one on the same engine; only tap, double_tap, long_press
\* and swipe change it, and get_state answers with it.
C23_HistoryIsAppendOnly ==
    [][(loaded /\ ~LoadsAnEngine) =>
          /\ state_machine' # NoStateMachine
          /\ \/ state_machine'.state_history = state_machine.state_history
             \/ /\ Len(state_machine'.state_history) =
                       Len(state_machine.state_history) + 1
                /\ SubSeq(state_machine'.state_history, 1,
                          Len(state_machine.state_history)) =
                       state_machine.state_history
          /\ (resp'.route \notin MotionRoutes) =>
                state_machine'.state_history = state_machine.state_history
          /\ (resp'.route = "/test/state") =>
                resp'.body.history = state_machine.state_history]_vars

\* C23 witness: get_state answered [home, message] after a tap had moved the
\* engine and a type_text had been recorded behind it.
C23_Witness ==
    /\ resp = Response("/test/state", 200,
                       [current_state |-> Some("message"),
                        history |-> <<"home", "message">>])
    /\ Len(commands) = 2
    /\ commands[1].action = "tap"
    /\ commands[2].action = "type_text"

\* C24: the log is append-only between resets and its records do not change:
\* every step that is not a reset leaves the log as it was or appends one
\* record behind the earlier ones, whose action, deviceId, params and timestamp
\* stay, so an earlier get_commands answer is a prefix of a later one; only
\* reset removes records; load_scenario, successful or failed, leaves the log
\* unchanged; get_commands answers with the records of the log.
C24_LogIsAppendOnly ==
    [][/\ (resp'.route # "/test/reset") =>
             \/ commands' = commands
             \/ /\ Len(commands') = Len(commands) + 1
                /\ \A i \in 1..Len(commands) : commands'[i] = commands[i]
       /\ (resp'.route = "/test/reset") => commands' = << >>
       /\ (resp'.route = "/test/load_scenario") =>
             \A path \in Paths :
                load_scenario(path) => commands' = commands
       /\ (resp'.route = "/test/commands") =>
             /\ Len(resp'.body) = Len(commands)
             /\ \A i \in 1..Len(commands) :
                   resp'.body[i] = [action |-> commands[i].action,
                                    device_id |-> commands[i].device_id,
                                    params |-> commands[i].params,
                                    timestamp |-> commands[i].timestamp]]_vars

\* C24 witness: a successful load was answered with two records in the log, a
\* tap and a back, which are still there.
C24_Witness ==
    /\ resp.route = "/test/load_scenario" /\ resp.code = 200
    /\ Len(commands) = 2
    /\ commands[1].action = "tap"
    /\ commands[2].action = "back"

\* C25: in every reachable log the timestamps are non-decreasing in log order:
\* for all i < j the timestamp of record i is not later than that of record j.
C25_TimestampsNonDecreasing ==
    \A i \in 1..Len(commands), j \in 1..Len(commands) :
       i < j => commands[i].timestamp <= commands[j].timestamp

\* The graph of the engine: the initial state is declared, every transition
\* leads to a declared state and every region has x1 <= x2 and y1 <= y2.
GraphWellFormed(sm) ==
    /\ sm.initial_state_id \in DOMAIN sm.states
    /\ \A id \in DOMAIN sm.states :
          \A i \in DOMAIN sm.states[id].transitions :
             /\ sm.states[id].transitions[i].target \in DOMAIN sm.states
             /\ sm.states[id].transitions[i].region[1] <=
                   sm.states[id].transitions[i].region[3]
             /\ sm.states[id].transitions[i].region[2] <=
                   sm.states[id].transitions[i].region[4]

\* C26: a load is all or nothing: either it fails, is answered with a client
\* error and the engine stays as it was (none, if there was none), or the new
\* engine holds the whole graph of the source, in which the initial state and
\* every transition target are declared and every region has x1 <= x2 and
\* y1 <= y2; a source that cannot be read, has a dangling target, inverted
\* region bounds or no initialStateId is always rejected, so the active engine
\* never holds a graph that breaks these rules.
C26_LoadIsAllOrNothing ==
    /\ [](loaded => GraphWellFormed(state_machine))
    /\ [][(resp'.route = "/test/load_scenario") =>
             \A path \in AllPaths :
                load_scenario(path) =>
                   /\ (path \in RejectedPaths) => resp'.code = 400
                   /\ IF resp'.code = 200
                      THEN /\ GraphWellFormed(state_machine')
                           /\ DOMAIN state_machine'.states =
                                 Range(ScenarioFiles[path].stateIds)
                           /\ \A id \in DOMAIN state_machine'.states :
                                 state_machine'.states[id].transitions =
                                    ScenarioFiles[path].states[id].transitions
                      ELSE /\ resp'.code = 400
                           /\ state_machine' = state_machine]_vars

\* C26 witness: the load of the source without initialStateId was answered
\* with 400 on a server that never had an engine, and it still has none.
C26_Witness ==
    /\ resp.route = "/test/load_scenario" /\ resp.code = 400
    /\ scenario_path = Some("noinitial.yaml")
    /\ ~loaded
    /\ Len(commands) = 1

\* The fields the simplified entry of a record must carry, by action.
ParamsOf(action) ==
    CASE action = "tap" -> {"x", "y"}
      [] action = "swipe" -> {"start_x", "start_y", "end_x", "end_y"}
      [] action = "type_text" -> {"text"}
      [] OTHER -> {}

\* C27: the answer of get_commands_simplified mirrors the log: it has one
\* entry per record, in log order and as many as get_commands returns; the
\* i-th entry's action is the i-th record's action and every param of that
\* record stands under its own key with its own value (x and y for a tap,
\* start_x, start_y, end_x, end_y for a swipe, text for a type_text); the log
\* itself is not changed by the read.
C27_SimplifiedMirrorsLog ==
    [][(resp'.route = "/test/commands/actions" /\ get_command_actions) =>
         /\ resp'.code = 200
         /\ commands' = commands
         /\ DOMAIN resp'.body = DOMAIN commands
         /\ \A r \in {Response("/test/commands", 200,
                          [i \in 1..Len(commands) |-> to_dict(commands[i])])} :
               Len(resp'.body) = Len(r.body)
         /\ \A i \in DOMAIN commands :
               /\ resp'.body[i]["action"] = commands[i].action
               /\ DOMAIN resp'.body[i] =
                     {"action"} \cup DOMAIN commands[i].params
               /\ ParamsOf(commands[i].action) \subseteq DOMAIN resp'.body[i]
               /\ \A k \in DOMAIN commands[i].params :
                     resp'.body[i][k] = commands[i].params[k]]_vars

\* C27 witness: the simplified list was answered for a log of a tap followed
\* by a swipe; entry 1 is the tap with its x and y, entry 2 the swipe with
\* its four coordinates.
C27_Witness ==
    /\ resp.route = "/test/commands/actions"
    /\ Len(commands) = 2 /\ Len(resp.body) = 2
    /\ commands[1].action = "tap" /\ commands[2].action = "swipe"
    /\ resp.body[1]["action"] = "tap"
    /\ resp.body[1]["x"] = commands[1].params["x"]
    /\ resp.body[1]["y"] = commands[1].params["y"]
    /\ resp.body[2]["action"] = "swipe"
    /\ {"start_x", "start_y", "end_x", "end_y"} \subseteq DOMAIN resp.body[2]

\* C28: scenario_path names the scenario of the active engine: it is null
\* while no engine is active, a successful load sets it to the loaded path, a
\* failed load leaves it unchanged, and no other step changes it.
C28_ScenarioPathNamesEngine ==
    /\ [](~loaded => scenario_path = None)
    /\ [][IF resp'.route = "/test/load_scenario" /\ resp'.code = 200
           THEN load_scenario(scenario_path'[1])
           ELSE scenario_path' = scenario_path]_vars

====
